---- MODULE Spec2Model ----
(***************************************************************************)
(* Model of the CoreBluetooth heart-rate listener                          *)
(* (src/ble_hr_corebluetooth.py): the HRDelegate connection lifecycle      *)
(* manager, the reconnect tick driven by main(), and the heart-rate        *)
(* measurement decoder together with its copies in the other listeners.    *)
(*                                                                         *)
(* Python dicts are functions whose DOMAIN is the key set; Python sets are *)
(* sets; an optional number is the number or None; a name that is None or  *)
(* "" (the code only tests names for truthiness) is NoName.  Strings that  *)
(* are searched for substrings are sequences of one-character strings.     *)
(* Time is counted in whole seconds.                                       *)
(***************************************************************************)
EXTENDS Integers, Sequences, FiniteSets, TLC

\* ------------------------------------------------------------------------
\* Bounds of the model
\* ------------------------------------------------------------------------
MaxTime == 60          \* the clock stops advancing here
TimeStep == 30         \* seconds between two readings of the clock
MaxHRServices == 2     \* Heart Rate service instances a peripheral may list
MaxOut == 1            \* records kept of the output file
MaxLen == 4            \* longest notification payload given to the decoders

Devices == {"d1", "d2"}

\* Python's None where a number is expected (times, max_devices, a bpm).
None == -1

\* A name that is None or the empty string.
NoName == <<>>

\* ------------------------------------------------------------------------
\* Program constants
\* ------------------------------------------------------------------------
reconnect_interval == 5
blocked_ttl == 60
preferred_grace == 6

\* ------------------------------------------------------------------------
\* HR Measurement decoder and its copies
\* ------------------------------------------------------------------------
\* the bytes read most significant first
FromBytesBig(b) ==
    IF Len(b) = 0 THEN 0
    ELSE IF Len(b) = 1 THEN b[1]
    ELSE 256 * b[1] + b[2]

\* int.from_bytes(b, byteorder="little") for a slice of at most two bytes
FromBytesLittle(b) ==
    IF Len(b) = 0 THEN 0
    ELSE IF Len(b) = 1 THEN b[1]
    ELSE b[1] + 256 * b[2]

\* data[i:j] of Python (0-based, j exclusive, clipped to the length)
Slice(data, i, j) ==
    SubSeq(data, i + 1, IF j < Len(data) THEN j ELSE Len(data))

\* any flag bit taken for the width bit
AnyFlagBit(flags) == IF flags # 0 THEN 1 ELSE 0

\* flags & 0x01
Bit0(flags) == flags % 2

\* the decoder without its length test for the 16-bit encoding
parse_hr_measurement_unchecked(data) ==
    IF Len(data) = 0 \/ Len(data) < 2 THEN None
    ELSE IF Bit0(data[1]) # 0 THEN FromBytesLittle(Slice(data, 1, 3))
    ELSE data[2]

\* ble_hr_corebluetooth.parse_hr_measurement
parse_hr_measurement(data) ==
    IF Len(data) = 0 \/ Len(data) < 2 THEN None
    ELSE LET flags == data[1]
             hr_16bit == Bit0(flags)
         IN  IF hr_16bit # 0
             THEN IF Len(data) < 3 THEN None
                  ELSE FromBytesLittle(Slice(data, 1, 3))
             ELSE data[2]

\* ble_hr_gatt.parse_hr_measurement
gatt_parse_hr_measurement(data) ==
    IF Len(data) = 0 \/ Len(data) < 2 THEN None
    ELSE LET flags == data[1]
             hr_16bit == Bit0(flags)
         IN  IF hr_16bit # 0
             THEN IF Len(data) < 3 THEN None
                  ELSE LET hr == FromBytesLittle(Slice(data, 1, 3)) IN hr
             ELSE data[2]

\* apple_watch_probe.parse_hr_measurement
probe_parse_hr_measurement(data) ==
    IF Len(data) = 0 \/ Len(data) < 2 THEN None
    ELSE LET flags == data[1]
             hr_16bit == Bit0(flags)
         IN  IF hr_16bit # 0
             THEN IF Len(data) < 3 THEN None
                  ELSE FromBytesLittle(Slice(data, 1, 3))
             ELSE data[2]

\* a copy that always reads the 8-bit encoding
parse_hr_from_payload_8bit(payload) ==
    IF Len(payload) = 0 \/ Len(payload) < 2 THEN None
    ELSE payload[2]

\* ble_hr_broadcast.parse_hr_from_payload
parse_hr_from_payload(payload) ==
    IF Len(payload) = 0 \/ Len(payload) < 2 THEN None
    ELSE LET flags == payload[1]
             hr_16bit == Bit0(flags)
         IN  IF hr_16bit # 0
             THEN IF Len(payload) < 3 THEN None
                  ELSE LET hr == FromBytesLittle(Slice(payload, 1, 3)) IN hr
             ELSE LET hr == payload[2] IN hr

\* ------------------------------------------------------------------------
\* Names
\* ------------------------------------------------------------------------
\* str.lower() on one character
LowerChar(c) ==
    CASE c = "W" -> "w"
      [] c = "M" -> "m"
      [] c = "G" -> "g"
      [] c = "S" -> "s"
      [] c = "D" -> "d"
      [] OTHER -> c

\* str.lower()
Lower(s) == [i \in 1..Len(s) |-> LowerChar(s[i])]

\* want in s (substring test of Python)
Contains(s, want) ==
    \E i \in 0..(Len(s) - Len(want)) : SubSeq(s, i + 1, i + Len(want)) = want

\* any(want in name or want in adv_name for want in wants)
AnyContains(wants, name, adv_name) ==
    \E k \in 1..Len(wants) :
        Contains(name, wants[k]) \/ Contains(adv_name, wants[k])

\* ------------------------------------------------------------------------
\* State
\* ------------------------------------------------------------------------
VARIABLES
    \* HRDelegate fields
    central,            \* self.central is set
    peripherals,        \* keys of self.peripherals (the cached handles)
    connected_ids,
    connecting_ids,
    name_by_id,
    scanning,
    last_scan_start,
    pending_reconnect,
    blocked_ids,
    \* configuration, set once by set_output / set_filters / set_preferred
    outfile,            \* an output path was given
    name_filters,
    id_filters,
    max_devices,
    preferred_names,
    \* the output file: the records _write_hr has written
    written,
    \* the BLE stack behind CBCentralManager
    powered,            \* central.state() == CBManagerStatePoweredOn
    t_scanning,         \* the stack is scanning
    conn_req,           \* peripherals with a connect request outstanding
    link_up,            \* peripherals with an established connection
    svc_req,            \* peripherals with discoverServices outstanding
    chr_req,            \* outstanding discoverCharacteristics per peripheral
    notifying,          \* peripherals with notification enabled
    pname,              \* peripheral.name() of every peripheral
    calls,              \* what the last step asked of the central manager
                        \* (connect, cancel, scan, stopScan) and of _write_hr
    connect_at,         \* when connectPeripheral_options_ was last called
                        \* for each peripheral without a connection coming
                        \* of it (None when never, or when the last call
                        \* was answered by a connection)
    now,                \* time.time()
    \* main(): the loop that calls delegate.tick()
    tick_pc,
    tick_now,           \* tick's local now (0 outside tick)
    tick_items,         \* what is left of tick's snapshot of the dict
    tick_dev,           \* the device_id tick is looking at ("d1" when none)
    crashed,            \* an exception left tick and ended main()
    \* decoder harness
    notification,       \* the payload handed to the decoders
    returned            \* decoder copy -> what it returned

delegateVars == <<central, peripherals, connected_ids, connecting_ids,
                  name_by_id, scanning, last_scan_start, pending_reconnect,
                  blocked_ids>>
configVars == <<outfile, name_filters, id_filters, max_devices,
                preferred_names>>
stackVars == <<powered, t_scanning, conn_req, link_up, svc_req, chr_req,
               notifying, pname>>
tickVars == <<tick_pc, tick_now, tick_items, tick_dev, crashed>>
decoderVars == <<notification, returned>>

vars == <<delegateVars, configVars, written, stackVars, calls, connect_at,
          now,
          tickVars, decoderVars>>

\* ------------------------------------------------------------------------
\* Inputs
\* ------------------------------------------------------------------------
MyWatch == <<"M", "W">>
GenericSensor == <<"G", "S">>
\* kCBAdvDataLocalName of an advertisement (absent, or a name)
AdvNames == {NoName, MyWatch}

\* peripheral.identifier().UUIDString()
UUIDString(d) == IF d = "d1" THEN <<"d", "1">> ELSE <<"d", "2">>

\* byte values the payloads are built from
ByteVals == {0, 1, 2, 72, 254, 255}

RECURSIVE SeqsUpTo(_, _)
SeqsUpTo(S, n) ==
    IF n = 0 THEN {<<>>}
    ELSE LET shorter == SeqsUpTo(S, n - 1)
         IN  shorter \cup {Append(q, x) : q \in shorter, x \in S}

Payloads == SeqsUpTo(ByteVals, MaxLen)

\* payloads the stack delivers in notifications
NotifiedPayloads == {<<>>, <<0, 72>>, <<1, 72, 0>>, <<1, 1>>}

\* command lines the listener is started with
Configs ==
    { [file |-> FALSE, name |-> <<>>, id |-> <<>>, max |-> 1,
       preferred |-> << <<"W">> >>],
      [file |-> TRUE,  name |-> <<>>, id |-> << <<"D", "1">> >>,
       max |-> None, preferred |-> <<>>],
      [file |-> FALSE, name |-> << <<"S">> >>, id |-> <<>>, max |-> 1,
       preferred |-> <<>>] }

\* lists retrieveConnectedPeripheralsWithServices_ may return
Retrievable ==
    {<<>>} \cup {<<d>> : d \in Devices}
           \cup {q \in Devices \X Devices : q[1] # q[2]}

\* ------------------------------------------------------------------------
\* HRDelegate helpers
\* ------------------------------------------------------------------------
Remove(f, k) == [x \in (DOMAIN f) \ {k} |-> f[x]]
Put(f, k, v) == (k :> v) @@ f

\* name_by_id.get(device_id, device_id)
Label(names, d) == IF d \in DOMAIN names THEN names[d] ELSE UUIDString(d)

\* _schedule_reconnect that schedules nothing
ScheduleNothing(pend, d, t) == pend

\* _schedule_reconnect
ScheduleReconnect(pend, d, t) ==
    IF d \in DOMAIN pend THEN pend
    ELSE Put(pend, d, t + reconnect_interval)

\* _reset_reconnect that keeps the entry
ResetReconnectKeeping(pend, d) == pend

\* _reset_reconnect
ResetReconnect(pend, d) ==
    IF d \in DOMAIN pend THEN Remove(pend, d) ELSE pend

\* _at_capacity that lets one device more than max_devices through
AtCapacityOneLate(conn, cing) ==
    IF max_devices = None THEN FALSE
    ELSE Cardinality(conn) + Cardinality(cing) > max_devices

\* _at_capacity
AtCapacity(conn, cing) ==
    IF max_devices = None THEN FALSE
    ELSE Cardinality(conn) + Cardinality(cing) >= max_devices

\* _block_device with the reconnect interval in place of blocked_ttl
BlockedForReconnectInterval(blk, d, t) == Put(blk, d, t + reconnect_interval)

\* _block_device: the block entry
BlockedAfterBlock(blk, d, t) == Put(blk, d, t + blocked_ttl)

\* _block_device without the pop of the pending entry
PendingKeptAfterBlock(pend, d) == pend

\* _block_device: the pending entry removed
PendingAfterBlock(pend, d) ==
    IF d \in DOMAIN pend THEN Remove(pend, d) ELSE pend

\* the block test without the expiry
BlockEntryExists(blk, d, t) == d \in DOMAIN blk

\* blocked_ids[d] exists and has not expired at t
ActiveBlock(blk, d, t) == d \in DOMAIN blk /\ t < blk[d]

\* _match_device that leaves an expired block entry in blocked_ids
MatchDeviceKeepingEntry(blk, d, adv, t) ==
    LET blockedNow == ActiveBlock(blk, d, t)
        idOk == id_filters = <<>>
                \/ \E k \in 1..Len(id_filters) :
                       Contains(Lower(UUIDString(d)), id_filters[k])
        nameOk == name_filters = <<>>
                  \/ AnyContains(name_filters, Lower(pname[d]), Lower(adv))
    IN  [ok |-> ~blockedNow /\ idOk /\ nameOk, blk |-> blk]

\* _match_device: the answer, and blocked_ids after the lazy expiry
MatchDevice(blk, d, adv, t) ==
    LET blockedNow == ActiveBlock(blk, d, t)
        blk2 == IF d \in DOMAIN blk /\ ~blockedNow THEN Remove(blk, d)
                ELSE blk
        idOk == id_filters = <<>>
                \/ \E k \in 1..Len(id_filters) :
                       Contains(Lower(UUIDString(d)), id_filters[k])
        nameOk == name_filters = <<>>
                  \/ AnyContains(name_filters, Lower(pname[d]), Lower(adv))
    IN  [ok |-> ~blockedNow /\ idOk /\ nameOk, blk |-> blk2]

\* _is_preferred comparing the names without lowering them
IsPreferredCaseSensitive(d, adv) ==
    IF preferred_names = <<>> THEN FALSE
    ELSE AnyContains(preferred_names, pname[d], adv)

\* _is_preferred
IsPreferred(d, adv) ==
    IF preferred_names = <<>> THEN FALSE
    ELSE AnyContains(preferred_names, Lower(pname[d]), Lower(adv))

\* _should_defer_non_preferred without its test of preferred_names
ShouldDeferWithoutPreferred(lss, t) ==
    IF lss = None THEN FALSE
    ELSE (t - lss) < preferred_grace

\* _should_defer_non_preferred
ShouldDeferNonPreferred(lss, t) ==
    IF preferred_names = <<>> THEN FALSE
    ELSE IF lss = None THEN FALSE
    ELSE (t - lss) < preferred_grace

\* _update_name
UpdateName(names, d, adv) ==
    IF adv # NoName THEN Put(names, d, adv)
    ELSE IF pname[d] # NoName THEN Put(names, d, pname[d])
    ELSE names

\* _start_scan without its test of the scanning flag
StartScanAgain(m, c, t) ==
    IF ~c THEN m
    ELSE [m EXCEPT !.scanning = TRUE,
                   !.calls = Append(@, <<"scan", "any">>),
                   !.lss = t]

\* _start_scan at time t, on the scan state and the requests made so far;
\* c tells whether self.central is set
StartScan(m, c, t) ==
    IF ~c \/ m.scanning THEN m
    ELSE [m EXCEPT !.scanning = TRUE,
                   !.calls = Append(@, <<"scan", "any">>),
                   !.lss = t]

\* _stop_scan that leaves the scanning flag and last_scan_start set
StopScanKeepingFlag(m, c) ==
    IF ~c \/ ~m.scanning THEN m
    ELSE [m EXCEPT !.calls = Append(@, <<"stopScan", "any">>)]

\* _stop_scan
StopScan(m, c) ==
    IF ~c \/ ~m.scanning THEN m
    ELSE [m EXCEPT !.calls = Append(@, <<"stopScan", "any">>),
                   !.scanning = FALSE,
                   !.lss = None]

\* _connect_peripheral without its test of connected_ids and connecting_ids
ConnectPeripheralAgain(m, d, adv) ==
    [m EXCEPT !.per = @ \cup {d},
              !.names = UpdateName(@, d, adv),
              !.cing = @ \cup {d},
              !.calls = Append(@, <<"connect", d>>)]

\* _connect_peripheral, on the part of the state a callback threads through
ConnectPeripheral(m, d, adv) ==
    IF d \in connected_ids \/ d \in m.cing THEN m
    ELSE [m EXCEPT !.per = @ \cup {d},
                   !.names = UpdateName(@, d, adv),
                   !.cing = @ \cup {d},
                   !.calls = Append(@, <<"connect", d>>)]

\* the loop over the retrieved peripherals in centralManagerDidUpdateState_
RECURSIVE RetrieveLoop(_, _)
RetrieveLoop(m, lst) ==
    IF lst = <<>> THEN m
    ELSE IF AtCapacity(connected_ids, m.cing) THEN m
    ELSE LET d == Head(lst)
             r == MatchDevice(m.blk, d, NoName, now)
             m2 == [m EXCEPT !.blk = r.blk]
         IN  IF ~r.ok THEN RetrieveLoop(m2, Tail(lst))
             ELSE RetrieveLoop(ConnectPeripheral(m2, d, NoName), Tail(lst))

\* ------------------------------------------------------------------------
\* The stack's reaction to the requests of one step
\* ------------------------------------------------------------------------
Requested(cs, op) == {c[2] : c \in {cs[i] : i \in {j \in 1..Len(cs) : cs[j][1] = op}}}

RECURSIVE ScanAfter(_, _, _)
ScanAfter(cs, s, on) ==
    IF cs = <<>> THEN s
    ELSE ScanAfter(Tail(cs),
                   IF Head(cs)[1] = "scan" THEN on
                   ELSE IF Head(cs)[1] = "stopScan" THEN FALSE
                   ELSE s,
                   on)

\* the times of the last connect requests not answered by a connection,
\* after a step that made the requests cs
ConnectTimes(cs) ==
    [d \in Devices |-> IF d \in Requested(cs, "connect") THEN now
                       ELSE connect_at[d]]

\* what the stack holds after a step that made the requests cs
StackTakes(cs) ==
    /\ calls' = cs
    /\ connect_at' = ConnectTimes(cs)
    /\ t_scanning' = ScanAfter(cs, t_scanning, powered)

EmptyDict == [x \in {} |-> None]

\* [n.lower() for n in names if n]
LowerAll(names) == [k \in 1..Len(names) |-> Lower(names[k])]

PeripheralNames ==
    { [d \in Devices |-> IF d = "d1" THEN MyWatch ELSE GenericSensor],
      [d \in Devices |-> IF d = "d1" THEN NoName ELSE GenericSensor] }

\* ------------------------------------------------------------------------
\* Initial state: HRDelegate.init, then set_output, set_filters and
\* set_preferred with the command line's values
\* ------------------------------------------------------------------------
InitDelegate ==
    /\ central = FALSE
    /\ peripherals = {}
    /\ connected_ids = {}
    /\ connecting_ids = {}
    /\ name_by_id = EmptyDict
    /\ scanning = FALSE
    /\ last_scan_start = None
    /\ pending_reconnect = EmptyDict
    /\ blocked_ids = EmptyDict
    /\ written = <<>>

InitConfig ==
    \E cfg \in Configs :
        /\ outfile = cfg.file
        /\ name_filters = LowerAll(cfg.name)
        /\ id_filters = LowerAll(cfg.id)
        /\ max_devices = cfg.max
        /\ preferred_names = LowerAll(cfg.preferred)

InitStack ==
    /\ powered = FALSE
    /\ t_scanning = FALSE
    /\ conn_req = {}
    /\ link_up = {}
    /\ svc_req = {}
    /\ chr_req = [d \in Devices |-> 0]
    /\ notifying = {}
    /\ pname \in PeripheralNames
    /\ calls = <<>>
    /\ connect_at = [d \in Devices |-> None]
    /\ now = 0

InitTick ==
    /\ tick_pc = "idle"
    /\ tick_now = 0
    /\ tick_items = {}
    /\ tick_dev = "d1"
    /\ crashed = FALSE

Init ==
    /\ InitDelegate
    /\ InitConfig
    /\ InitStack
    /\ InitTick
    /\ notification = <<>>
    /\ returned = EmptyDict

\* no tick is in progress and main() is running
Quiet == tick_pc = "idle" /\ ~crashed

\* ------------------------------------------------------------------------
\* Callbacks of the stack (each runs on the serial dispatch queue)
\* ------------------------------------------------------------------------
\* centralManagerDidUpdateState_ forgetting the scan when the power goes
DidUpdateStateClearingScan(on, lst) ==
    /\ ~crashed
    /\ ~central \/ on # powered
    /\ central' = TRUE
    /\ powered' = on
    /\ IF ~on
       THEN /\ t_scanning' = FALSE
            /\ calls' = <<>>
            /\ UNCHANGED connect_at
            /\ scanning' = FALSE
            /\ UNCHANGED <<peripherals, connecting_ids, name_by_id,
                           last_scan_start, blocked_ids, conn_req>>
       ELSE LET m0 == [per |-> peripherals, names |-> name_by_id,
                       cing |-> connecting_ids, blk |-> blocked_ids,
                       calls |-> <<>>]
                m == RetrieveLoop(m0, lst)
                sc == StartScan([scanning |-> scanning,
                                 lss |-> last_scan_start,
                                 calls |-> m.calls], TRUE, now)
                cs == sc.calls
            IN  /\ peripherals' = m.per
                /\ name_by_id' = m.names
                /\ connecting_ids' = m.cing
                /\ blocked_ids' = m.blk
                /\ scanning' = sc.scanning
                /\ last_scan_start' = sc.lss
                /\ calls' = cs
                /\ connect_at' = ConnectTimes(cs)
                /\ t_scanning' = ScanAfter(cs, t_scanning, TRUE)
                /\ conn_req' = conn_req \cup Requested(cs, "connect")
    /\ UNCHANGED <<connected_ids, pending_reconnect, configVars, written,
                   link_up, svc_req, chr_req, notifying, pname, now,
                   tickVars, decoderVars>>

\* centralManagerDidUpdateState_
DidUpdateState(on, lst) ==
    /\ ~crashed
    /\ ~central \/ on # powered
    /\ central' = TRUE
    /\ powered' = on
    /\ IF ~on
       THEN /\ t_scanning' = FALSE
            /\ calls' = <<>>
            /\ UNCHANGED connect_at
            /\ UNCHANGED <<peripherals, connecting_ids, name_by_id,
                           scanning, last_scan_start, blocked_ids,
                           conn_req>>
       ELSE LET m0 == [per |-> peripherals, names |-> name_by_id,
                       cing |-> connecting_ids, blk |-> blocked_ids,
                       calls |-> <<>>]
                m == RetrieveLoop(m0, lst)
                sc == StartScan([scanning |-> scanning,
                                 lss |-> last_scan_start,
                                 calls |-> m.calls], TRUE, now)
                cs == sc.calls
            IN  /\ peripherals' = m.per
                /\ name_by_id' = m.names
                /\ connecting_ids' = m.cing
                /\ blocked_ids' = m.blk
                /\ scanning' = sc.scanning
                /\ last_scan_start' = sc.lss
                /\ calls' = cs
                /\ connect_at' = ConnectTimes(cs)
                /\ t_scanning' = ScanAfter(cs, t_scanning, TRUE)
                /\ conn_req' = conn_req \cup Requested(cs, "connect")
    /\ UNCHANGED <<connected_ids, pending_reconnect, configVars, written,
                   link_up, svc_req, chr_req, notifying, pname, now,
                   tickVars, decoderVars>>

\* centralManager_didDiscoverPeripheral_advertisementData_RSSI_ scheduling
\* a reconnect for the device it does not connect
DidDiscoverScheduling(d, adv) ==
    /\ ~crashed
    /\ powered /\ t_scanning
    /\ LET names1 == UpdateName(name_by_id, d, adv)
           r == MatchDevice(blocked_ids, d, adv, now)
           preferred == IsPreferred(d, adv)
           m0 == [per |-> peripherals \cup {d}, names |-> names1,
                  cing |-> connecting_ids, blk |-> r.blk, calls |-> <<>>]
           m == IF ~r.ok THEN m0
                ELSE IF ~preferred
                        /\ ShouldDeferNonPreferred(last_scan_start, now)
                     THEN m0
                ELSE IF AtCapacity(connected_ids, connecting_ids) THEN m0
                ELSE ConnectPeripheral(m0, d, adv)
       IN  /\ peripherals' = m.per
           /\ name_by_id' = m.names
           /\ connecting_ids' = m.cing
           /\ blocked_ids' = m.blk
           /\ StackTakes(m.calls)
           /\ conn_req' = conn_req \cup Requested(m.calls, "connect")
           /\ pending_reconnect' =
                  IF r.ok /\ m = m0
                  THEN ScheduleReconnect(pending_reconnect, d, now)
                  ELSE pending_reconnect
    /\ UNCHANGED <<central, connected_ids, scanning, last_scan_start,
                   configVars, written, powered, link_up,
                   svc_req, chr_req, notifying, pname, now, tickVars,
                   decoderVars>>

\* centralManager_didDiscoverPeripheral_advertisementData_RSSI_
DidDiscoverPeripheral(d, adv) ==
    /\ ~crashed
    /\ powered /\ t_scanning
    /\ LET names1 == UpdateName(name_by_id, d, adv)
           r == MatchDevice(blocked_ids, d, adv, now)
           preferred == IsPreferred(d, adv)
           m0 == [per |-> peripherals \cup {d}, names |-> names1,
                  cing |-> connecting_ids, blk |-> r.blk, calls |-> <<>>]
           m == IF ~r.ok THEN m0
                ELSE IF ~preferred
                        /\ ShouldDeferNonPreferred(last_scan_start, now)
                     THEN m0
                ELSE IF AtCapacity(connected_ids, connecting_ids) THEN m0
                ELSE ConnectPeripheral(m0, d, adv)
       IN  /\ peripherals' = m.per
           /\ name_by_id' = m.names
           /\ connecting_ids' = m.cing
           /\ blocked_ids' = m.blk
           /\ StackTakes(m.calls)
           /\ conn_req' = conn_req \cup Requested(m.calls, "connect")
    /\ UNCHANGED <<central, connected_ids, scanning, last_scan_start,
                   pending_reconnect, configVars, written, powered, link_up,
                   svc_req, chr_req, notifying, pname, now, tickVars,
                   decoderVars>>

\* centralManager_didConnectPeripheral_
DidConnectPeripheral(d) ==
    /\ ~crashed
    /\ powered /\ d \in conn_req
    /\ connected_ids' = connected_ids \cup {d}
    /\ connecting_ids' = connecting_ids \ {d}
    /\ pending_reconnect' = ResetReconnect(pending_reconnect, d)
    /\ calls' = <<>>
    /\ connect_at' = [connect_at EXCEPT ![d] = None]
    /\ conn_req' = conn_req \ {d}
    /\ link_up' = link_up \cup {d}
    /\ svc_req' = svc_req \cup {d}
    /\ UNCHANGED <<central, peripherals, name_by_id, scanning,
                   last_scan_start, blocked_ids, configVars, written,
                   powered, t_scanning, chr_req, notifying, pname, now,
                   tickVars, decoderVars>>

\* centralManager_didFailToConnectPeripheral_error_ that gives the device up
DidFailGivingUp(d) ==
    /\ ~crashed
    /\ d \in conn_req /\ d \notin link_up
    /\ connecting_ids' = connecting_ids \ {d}
    /\ pending_reconnect' = PendingAfterBlock(pending_reconnect, d)
    /\ StackTakes(<<>>)
    /\ conn_req' = conn_req \ {d}
    /\ UNCHANGED <<central, peripherals, connected_ids, name_by_id,
                   scanning, last_scan_start, blocked_ids, configVars,
                   written, powered, link_up, svc_req, chr_req, notifying,
                   pname, now, tickVars, decoderVars>>

\* centralManager_didFailToConnectPeripheral_error_
DidFailToConnectPeripheral(d) ==
    /\ ~crashed
    /\ d \in conn_req /\ d \notin link_up
    /\ connecting_ids' = connecting_ids \ {d}
    /\ pending_reconnect' = ScheduleReconnect(pending_reconnect, d, now)
    /\ StackTakes(<<>>)
    /\ conn_req' = conn_req \ {d}
    /\ UNCHANGED <<central, peripherals, connected_ids, name_by_id,
                   scanning, last_scan_start, blocked_ids, configVars,
                   written, powered, link_up, svc_req, chr_req, notifying,
                   pname, now, tickVars, decoderVars>>

\* centralManager_didDisconnectPeripheral_error_ without the test of the
\* block
DidDisconnectAlwaysScheduling(d) ==
    /\ ~crashed
    /\ d \in link_up
    /\ connected_ids' = connected_ids \ {d}
    /\ pending_reconnect' = ScheduleReconnect(pending_reconnect, d, now)
    /\ StackTakes(<<>>)
    /\ link_up' = link_up \ {d}
    /\ svc_req' = svc_req \ {d}
    /\ chr_req' = [chr_req EXCEPT ![d] = 0]
    /\ notifying' = notifying \ {d}
    /\ UNCHANGED <<central, peripherals, connecting_ids, name_by_id,
                   scanning, last_scan_start, blocked_ids, configVars,
                   written, powered, conn_req, pname, now, tickVars,
                   decoderVars>>

\* centralManager_didDisconnectPeripheral_error_
DidDisconnectPeripheral(d) ==
    /\ ~crashed
    /\ d \in link_up
    /\ connected_ids' = connected_ids \ {d}
    /\ pending_reconnect' =
           IF ActiveBlock(blocked_ids, d, now) THEN pending_reconnect
           ELSE ScheduleReconnect(pending_reconnect, d, now)
    /\ StackTakes(<<>>)
    /\ link_up' = link_up \ {d}
    /\ svc_req' = svc_req \ {d}
    /\ chr_req' = [chr_req EXCEPT ![d] = 0]
    /\ notifying' = notifying \ {d}
    /\ UNCHANGED <<central, peripherals, connecting_ids, name_by_id,
                   scanning, last_scan_start, blocked_ids, configVars,
                   written, powered, conn_req, pname, now, tickVars,
                   decoderVars>>

\* peripheral_didDiscoverServices_ delivered for a peripheral whose services
\* were not asked for
DidDiscoverServicesUnasked(d, error, n) ==
    /\ ~crashed
    /\ error => n = 0
    /\ chr_req[d] + n <= MaxHRServices
    /\ svc_req' = svc_req \ {d}
    /\ IF error
       THEN /\ pending_reconnect' =
                   ScheduleReconnect(pending_reconnect, d, now)
            /\ StackTakes(<<>>)
            /\ UNCHANGED <<blocked_ids, chr_req>>
       ELSE IF n > 0
       THEN \* one discoverCharacteristics_forService_ per instance found
            /\ StackTakes(<<>>)
            /\ chr_req' = [chr_req EXCEPT ![d] = @ + n]
            /\ UNCHANGED <<blocked_ids, pending_reconnect>>
       ELSE /\ blocked_ids' = BlockedAfterBlock(blocked_ids, d, now)
            /\ pending_reconnect' = PendingAfterBlock(pending_reconnect, d)
            /\ StackTakes(<< <<"cancel", d>> >>)
            /\ UNCHANGED chr_req
    /\ UNCHANGED <<central, peripherals, connected_ids, connecting_ids,
                   name_by_id, scanning, last_scan_start, configVars,
                   written, powered, conn_req, link_up, notifying, pname,
                   now, tickVars, decoderVars>>

\* peripheral_didDiscoverServices_: error is set or not, and the services
\* listed hold n instances of the Heart Rate service
DidDiscoverServices(d, error, n) ==
    /\ ~crashed
    /\ d \in svc_req
    /\ error => n = 0
    /\ chr_req[d] + n <= MaxHRServices
    /\ svc_req' = svc_req \ {d}
    /\ IF error
       THEN /\ pending_reconnect' =
                   ScheduleReconnect(pending_reconnect, d, now)
            /\ StackTakes(<<>>)
            /\ UNCHANGED <<blocked_ids, chr_req>>
       ELSE IF n > 0
       THEN \* one discoverCharacteristics_forService_ per instance found
            /\ StackTakes(<<>>)
            /\ chr_req' = [chr_req EXCEPT ![d] = @ + n]
            /\ UNCHANGED <<blocked_ids, pending_reconnect>>
       ELSE /\ blocked_ids' = BlockedAfterBlock(blocked_ids, d, now)
            /\ pending_reconnect' = PendingAfterBlock(pending_reconnect, d)
            /\ StackTakes(<< <<"cancel", d>> >>)
            /\ UNCHANGED chr_req
    /\ UNCHANGED <<central, peripherals, connected_ids, connecting_ids,
                   name_by_id, scanning, last_scan_start, configVars,
                   written, powered, conn_req, link_up, notifying, pname,
                   now, tickVars, decoderVars>>

\* peripheral_didDiscoverCharacteristicsForService_error_ whose error branch
\* writes a new time over the entry the device has
DidDiscoverCharacteristicsRearming(d, error, found) ==
    /\ ~crashed
    /\ chr_req[d] > 0
    /\ error => ~found
    /\ chr_req' = [chr_req EXCEPT ![d] = @ - 1]
    /\ IF error
       THEN /\ pending_reconnect' =
                   Put(pending_reconnect, d, now + reconnect_interval)
            /\ StackTakes(<<>>)
            /\ UNCHANGED <<blocked_ids, notifying>>
       ELSE IF found
       THEN /\ StackTakes(<<>>)
            /\ notifying' = notifying \cup {d}
            /\ UNCHANGED <<blocked_ids, pending_reconnect>>
       ELSE /\ blocked_ids' = BlockedAfterBlock(blocked_ids, d, now)
            /\ pending_reconnect' = PendingAfterBlock(pending_reconnect, d)
            /\ StackTakes(<< <<"cancel", d>> >>)
            /\ UNCHANGED notifying
    /\ UNCHANGED <<central, peripherals, connected_ids, connecting_ids,
                   name_by_id, scanning, last_scan_start, configVars,
                   written, powered, conn_req, link_up, svc_req, pname,
                   now, tickVars, decoderVars>>

\* peripheral_didDiscoverCharacteristicsForService_error_: error is set or
\* not, and the service holds the Heart Rate Measurement characteristic or not
DidDiscoverCharacteristics(d, error, found) ==
    /\ ~crashed
    /\ chr_req[d] > 0
    /\ error => ~found
    /\ chr_req' = [chr_req EXCEPT ![d] = @ - 1]
    /\ IF error
       THEN /\ pending_reconnect' =
                   ScheduleReconnect(pending_reconnect, d, now)
            /\ StackTakes(<<>>)
            /\ UNCHANGED <<blocked_ids, notifying>>
       ELSE IF found
       THEN /\ StackTakes(<<>>)
            /\ notifying' = notifying \cup {d}
            /\ UNCHANGED <<blocked_ids, pending_reconnect>>
       ELSE /\ blocked_ids' = BlockedAfterBlock(blocked_ids, d, now)
            /\ pending_reconnect' = PendingAfterBlock(pending_reconnect, d)
            /\ StackTakes(<< <<"cancel", d>> >>)
            /\ UNCHANGED notifying
    /\ UNCHANGED <<central, peripherals, connected_ids, connecting_ids,
                   name_by_id, scanning, last_scan_start, configVars,
                   written, powered, conn_req, link_up, svc_req, pname,
                   now, tickVars, decoderVars>>

\* the record of _write_hr with the device id left out
RecordWithoutId(bpm, source, device_id) ==
    [bpm |-> bpm, source |-> source, id |-> "unknown"]

\* the record _write_hr builds, without its wall-clock field "ts"
Record(bpm, source, device_id) ==
    [bpm |-> bpm, source |-> source, id |-> device_id]

\* peripheral_didUpdateValueForCharacteristic_error_ that takes an error or
\* an undecodable payload for a lost connection
DidUpdateValueOrReconnect(d, kind, value) ==
    /\ ~crashed
    /\ d \in notifying
    /\ kind \in {"error", "novalue"} => value = <<>>
    /\ LET bpm == parse_hr_measurement(value)
           names1 == UpdateName(name_by_id, d, NoName)
       IN  IF kind # "value" \/ bpm = None
           THEN /\ StackTakes(<<>>)
                /\ pending_reconnect' =
                       ScheduleReconnect(pending_reconnect, d, now)
                /\ UNCHANGED <<name_by_id, written>>
           ELSE /\ outfile => Len(written) < MaxOut
                /\ name_by_id' = names1
                /\ StackTakes(<< <<"_write_hr", d>> >>)
                /\ written' =
                       IF outfile
                       THEN Append(written,
                                   Record(bpm, Label(names1, d), d))
                       ELSE written
                /\ UNCHANGED pending_reconnect
    /\ UNCHANGED <<central, peripherals, connected_ids, connecting_ids,
                   scanning, last_scan_start,
                   blocked_ids, configVars, powered, conn_req, link_up,
                   svc_req, chr_req, notifying, pname, now, tickVars,
                   decoderVars>>

\* peripheral_didUpdateValueForCharacteristic_error_: kind tells whether
\* error is set, characteristic.value() is None, or value is the payload
DidUpdateValue(d, kind, value) ==
    /\ ~crashed
    /\ d \in notifying
    /\ kind \in {"error", "novalue"} => value = <<>>
    /\ LET bpm == parse_hr_measurement(value)
           names1 == UpdateName(name_by_id, d, NoName)
       IN  IF kind # "value" \/ bpm = None
           THEN /\ StackTakes(<<>>)
                /\ UNCHANGED <<name_by_id, written>>
           ELSE /\ outfile => Len(written) < MaxOut
                /\ name_by_id' = names1
                /\ StackTakes(<< <<"_write_hr", d>> >>)
                /\ written' =
                       IF outfile
                       THEN Append(written,
                                   Record(bpm, Label(names1, d), d))
                       ELSE written
    /\ UNCHANGED <<central, peripherals, connected_ids, connecting_ids,
                   scanning, last_scan_start, pending_reconnect,
                   blocked_ids, configVars, powered, conn_req, link_up,
                   svc_req, chr_req, notifying, pname, now, tickVars,
                   decoderVars>>

\* ------------------------------------------------------------------------
\* The reconnect tick, run as one uninterrupted call
\* ------------------------------------------------------------------------
\* the not-ready branch adding the interval to the time the entry had
AttemptAtFromDue(ts, t) == ts + reconnect_interval

\* what tick's not-ready branch, run at time t, writes over an entry due
\* at ts
NotReadyAttemptAt(ts, t) == t + reconnect_interval

\* the body of tick's for loop without the test of connecting_ids
TickItemReconnecting(m, d, ts, t) ==
    IF t < ts THEN m
    ELSE IF d \in connected_ids
    THEN IF d \in DOMAIN m.pend
         THEN [m EXCEPT !.pend = Remove(@, d)]
         ELSE [m EXCEPT !.crashed = TRUE]
    ELSE IF d \in peripherals
    THEN [m EXCEPT !.cing = @ \cup {d},
                   !.calls = Append(@, <<"connect", d>>),
                   !.pend = Put(@, d, t + reconnect_interval)]
    ELSE LET m1 == IF m.scanning THEN StopScan(m, central) ELSE m
             m2 == StartScan(m1, central, t)
         IN  [m2 EXCEPT !.pend = Put(@, d, t + reconnect_interval)]

\* the body of tick's for loop for one item of the snapshot, at time t
TickItem(m, d, ts, t) ==
    IF t < ts THEN m
    ELSE IF d \in connected_ids
    THEN IF d \in DOMAIN m.pend
         THEN [m EXCEPT !.pend = Remove(@, d)]
         ELSE [m EXCEPT !.crashed = TRUE]
    ELSE IF d \in m.cing
    THEN [m EXCEPT !.pend = Put(@, d, t + reconnect_interval)]
    ELSE IF d \in peripherals
    THEN [m EXCEPT !.cing = @ \cup {d},
                   !.calls = Append(@, <<"connect", d>>),
                   !.pend = Put(@, d, t + reconnect_interval)]
    ELSE LET m1 == IF m.scanning THEN StopScan(m, central) ELSE m
             m2 == StartScan(m1, central, t)
         IN  [m2 EXCEPT !.pend = Put(@, d, t + reconnect_interval)]

RECURSIVE TickLoop(_, _, _)
TickLoop(m, items, t) ==
    IF items = {} \/ m.crashed THEN m
    ELSE LET it == CHOOSE x \in items : TRUE
         IN  TickLoop(TickItem(m, it[1], it[2], t), items \ {it}, t)

Items(pend) == {<<d, pend[d]>> : d \in DOMAIN pend}

\* tick
Tick ==
    /\ Quiet
    /\ IF DOMAIN pending_reconnect = {}
       THEN /\ StackTakes(<<>>)
            /\ UNCHANGED <<connecting_ids, scanning, last_scan_start,
                           pending_reconnect, conn_req, crashed>>
       ELSE IF ~central \/ ~powered
       THEN /\ pending_reconnect' =
                   [d \in DOMAIN pending_reconnect |->
                       NotReadyAttemptAt(pending_reconnect[d], now)]
            /\ StackTakes(<<>>)
            /\ UNCHANGED <<connecting_ids, scanning, last_scan_start,
                           conn_req, crashed>>
       ELSE LET m0 == [pend |-> pending_reconnect,
                       cing |-> connecting_ids, scanning |-> scanning,
                       lss |-> last_scan_start, calls |-> <<>>,
                       crashed |-> FALSE]
                m == TickLoop(m0, Items(pending_reconnect), now)
            IN  /\ pending_reconnect' = m.pend
                /\ connecting_ids' = m.cing
                /\ scanning' = m.scanning
                /\ last_scan_start' = m.lss
                /\ crashed' = m.crashed
                /\ StackTakes(m.calls)
                /\ conn_req' = conn_req \cup Requested(m.calls, "connect")
    /\ UNCHANGED <<central, peripherals, connected_ids, name_by_id,
                   blocked_ids, configVars, written, powered, link_up,
                   svc_req, chr_req, notifying, pname, now, tick_pc,
                   tick_now, tick_items, tick_dev, decoderVars>>

\* time passes
Advance ==
    /\ ~crashed
    /\ now + TimeStep <= MaxTime
    /\ now' = now + TimeStep
    /\ UNCHANGED <<delegateVars, configVars, written, stackVars, calls,
                   connect_at,
                   tickVars, decoderVars>>

\* ------------------------------------------------------------------------
\* The listener with every callback and every tick run one after another
\* ------------------------------------------------------------------------
Callbacks ==
    \/ \E on \in BOOLEAN, lst \in Retrievable : DidUpdateState(on, lst)
    \/ \E d \in Devices, adv \in AdvNames : DidDiscoverPeripheral(d, adv)
    \/ \E d \in Devices : DidConnectPeripheral(d)
    \/ \E d \in Devices : DidFailToConnectPeripheral(d)
    \/ \E d \in Devices : DidDisconnectPeripheral(d)
    \/ \E d \in Devices, error \in BOOLEAN, n \in 0..MaxHRServices :
           DidDiscoverServices(d, error, n)
    \/ \E d \in Devices, error \in BOOLEAN, found \in BOOLEAN :
           DidDiscoverCharacteristics(d, error, found)
    \/ \E d \in Devices, kind \in {"error", "novalue", "value"},
          value \in NotifiedPayloads : DidUpdateValue(d, kind, value)

Next ==
    \/ Callbacks
    \/ Tick
    \/ Advance

Spec == Init /\ [][Next]_vars

\* ------------------------------------------------------------------------
\* The listener as main() runs it: the callbacks on the dispatch queue's
\* thread, tick on the main thread, with no lock between them.  tick is
\* cut where it reads the shared state again; a callback may run at every
\* cut.
\* ------------------------------------------------------------------------
\* tick, lines 123-134: the emptiness test, now, the readiness test and the
\* snapshot list(self.pending_reconnect ...)
TickBegin ==
    /\ Quiet
    /\ calls' = <<>>
    /\ UNCHANGED connect_at
    /\ IF DOMAIN pending_reconnect = {}
       THEN UNCHANGED <<tick_pc, tick_now, tick_items>>
       ELSE /\ tick_now' = now
            /\ tick_items' = Items(pending_reconnect)
            /\ tick_pc' = IF ~central \/ ~powered THEN "notready"
                          ELSE "loop"
    /\ UNCHANGED <<delegateVars, configVars, written, stackVars, now,
                   tick_dev, crashed, decoderVars>>

\* tick, lines 127-132: one round of the loop that pushes every entry
TickNotReady ==
    /\ ~crashed
    /\ tick_pc = "notready"
    /\ calls' = <<>>
    /\ UNCHANGED connect_at
    /\ IF tick_items = {}
       THEN /\ tick_pc' = "idle"
            /\ tick_now' = 0
            /\ UNCHANGED <<pending_reconnect, tick_items>>
       ELSE \E it \in tick_items :
                /\ pending_reconnect' =
                       Put(pending_reconnect, it[1],
                           NotReadyAttemptAt(it[2], tick_now))
                /\ tick_items' = tick_items \ {it}
                /\ UNCHANGED <<tick_pc, tick_now>>
    /\ UNCHANGED <<central, peripherals, connected_ids, connecting_ids,
                   name_by_id, scanning, last_scan_start, blocked_ids,
                   configVars, written, stackVars, now, tick_dev,
                   crashed, decoderVars>>

\* tick, lines 134-139: the next item, the due test, and the test of
\* connected_ids with the del that follows it
TickConnected ==
    /\ ~crashed
    /\ tick_pc = "loop"
    /\ calls' = <<>>
    /\ UNCHANGED connect_at
    /\ IF tick_items = {}
       THEN /\ tick_pc' = "idle"
            /\ tick_now' = 0
            /\ UNCHANGED <<pending_reconnect, tick_items, tick_dev,
                           crashed>>
       ELSE \E it \in tick_items :
                /\ tick_items' = tick_items \ {it}
                /\ UNCHANGED tick_now
                /\ IF tick_now < it[2]
                   THEN UNCHANGED <<pending_reconnect, tick_pc, tick_dev,
                                    crashed>>
                   ELSE IF it[1] \in connected_ids
                   THEN IF it[1] \in DOMAIN pending_reconnect
                        THEN /\ pending_reconnect' =
                                    Remove(pending_reconnect, it[1])
                             /\ UNCHANGED <<tick_pc, tick_dev, crashed>>
                        ELSE /\ crashed' = TRUE
                             /\ UNCHANGED <<pending_reconnect, tick_pc,
                                            tick_dev>>
                   ELSE /\ tick_dev' = it[1]
                        /\ tick_pc' = "connecting"
                        /\ UNCHANGED <<pending_reconnect, crashed>>
    /\ UNCHANGED <<central, peripherals, connected_ids, connecting_ids,
                   name_by_id, scanning, last_scan_start, blocked_ids,
                   configVars, written, stackVars, now, decoderVars>>

\* tick, lines 140-142: the test of connecting_ids
TickConnecting ==
    /\ ~crashed
    /\ tick_pc = "connecting"
    /\ calls' = <<>>
    /\ UNCHANGED connect_at
    /\ IF tick_dev \in connecting_ids
       THEN /\ pending_reconnect' =
                   Put(pending_reconnect, tick_dev,
                       tick_now + reconnect_interval)
            /\ tick_pc' = "loop"
            /\ tick_dev' = "d1"
       ELSE /\ tick_pc' = "attempt"
            /\ UNCHANGED <<pending_reconnect, tick_dev>>
    /\ UNCHANGED <<central, peripherals, connected_ids, connecting_ids,
                   name_by_id, scanning, last_scan_start, blocked_ids,
                   configVars, written, stackVars, now, tick_now,
                   tick_items, crashed, decoderVars>>

\* tick, lines 143-159: the connect attempt, or the scan restart
TickAttempt ==
    /\ ~crashed
    /\ tick_pc = "attempt"
    /\ tick_pc' = "loop"
    /\ tick_dev' = "d1"
    /\ pending_reconnect' =
           Put(pending_reconnect, tick_dev, tick_now + reconnect_interval)
    /\ IF tick_dev \in peripherals
       THEN /\ connecting_ids' = connecting_ids \cup {tick_dev}
            /\ StackTakes(<< <<"connect", tick_dev>> >>)
            /\ conn_req' = conn_req \cup {tick_dev}
            /\ UNCHANGED <<scanning, last_scan_start>>
       ELSE LET s0 == [scanning |-> scanning, lss |-> last_scan_start,
                       calls |-> <<>>]
                s1 == IF scanning THEN StopScan(s0, central) ELSE s0
                s2 == StartScan(s1, central, now)
            IN  /\ scanning' = s2.scanning
                /\ last_scan_start' = s2.lss
                /\ StackTakes(s2.calls)
            /\ UNCHANGED <<connecting_ids, conn_req>>
    /\ UNCHANGED <<central, peripherals, connected_ids, name_by_id,
                   blocked_ids, configVars, written, powered, link_up,
                   svc_req, chr_req, notifying, pname, now, tick_now,
                   tick_items, crashed, decoderVars>>

TickSteps ==
    \/ TickBegin
    \/ TickNotReady
    \/ TickConnected
    \/ TickConnecting
    \/ TickAttempt

NextThreads ==
    \/ Callbacks
    \/ TickSteps
    \/ Advance

\* started with --id, so that one peripheral is followed
InitThreads ==
    /\ Init
    /\ id_filters # <<>>
    /\ pname["d1"] = NoName

SpecThreads == InitThreads /\ [][NextThreads]_vars

\* ------------------------------------------------------------------------
\* The decoders on their own: any payload, each copy applied to it
\* ------------------------------------------------------------------------
Copies == {"corebluetooth", "gatt", "probe", "broadcast"}

InitDecoders ==
    /\ InitDelegate
    /\ InitConfig
    /\ InitStack
    /\ InitTick
    /\ id_filters # <<>>
    /\ pname["d1"] = NoName
    /\ notification \in Payloads
    /\ returned = EmptyDict

Decoded(copy, bpm) ==
    /\ returned' = Put(returned, copy, bpm)
    /\ UNCHANGED <<delegateVars, configVars, written, stackVars, calls,
                   connect_at, now,
                   tickVars, notification>>

DecodeCoreBluetooth ==
    Decoded("corebluetooth", parse_hr_measurement(notification))

DecodeGatt ==
    Decoded("gatt", gatt_parse_hr_measurement(notification))

DecodeProbe ==
    Decoded("probe", probe_parse_hr_measurement(notification))

DecodeBroadcast ==
    Decoded("broadcast", parse_hr_from_payload(notification))

NextDecoders ==
    \/ DecodeCoreBluetooth
    \/ DecodeGatt
    \/ DecodeProbe
    \/ DecodeBroadcast

SpecDecoders == InitDecoders /\ [][NextDecoders]_vars

\* ------------------------------------------------------------------------
\* Properties
\* ------------------------------------------------------------------------
\* _write_hr was called for device d in the last step
Emitted(d) == \E i \in 1..Len(calls) : calls[i] = <<"_write_hr", d>>

\* C1: when max_devices is set, after every callback and every tick the
\* connected and the connecting peripherals together number at most
\* max_devices.
CapacityRespected ==
    max_devices # None =>
        Cardinality(connected_ids) + Cardinality(connecting_ids)
            <= max_devices

\* C2: with every callback and every tick run one after another, no device
\* is in connected_ids and in connecting_ids at the same time.
ConnectedConnectingDisjoint == connected_ids \cap connecting_ids = {}

\* a device is connected while another connect is outstanding
OneConnectedOneConnecting ==
    /\ connected_ids # {}
    /\ connecting_ids # {}
    /\ DOMAIN pending_reconnect # {}

\* C3: a device whose block has not expired has no pending reconnect entry.
BlockedNeverPending ==
    \A d \in Devices :
        ActiveBlock(blocked_ids, d, now) => d \notin DOMAIN pending_reconnect

\* C4: a record is emitted only for a device that is connected, has
\* notification enabled, is not merely connecting and is not under an
\* active block.
EmittedOnlyWhenSubscribed ==
    \A d \in Devices :
        Emitted(d) =>
            /\ d \in connected_ids
            /\ d \in notifying
            /\ d \notin connecting_ids
            /\ ~ActiveBlock(blocked_ids, d, now)

\* C5: tick and the callbacks exclude each other: between tick's test of
\* connected_ids and connecting_ids for a device and its connect attempt no
\* connect-success callback moves that device, and connected_ids and
\* connecting_ids stay disjoint under every interleaving.
TickSerialized ==
    /\ tick_pc \in {"connecting", "attempt"} => tick_dev \notin connected_ids
    /\ connected_ids \cap connecting_ids = {}

\* C6: no run of tick ends in an unhandled error: the del of the pending
\* entry of a device found in connected_ids always finds its key.
TickNeverRaises == ~crashed

\* C7: parse_hr_measurement returns no value exactly when the payload is
\* shorter than 2 bytes, or bit 0 of byte 0 is set and it is shorter than 3.
NoValueIffTooShort ==
    "corebluetooth" \in DOMAIN returned =>
        (returned["corebluetooth"] = None
            <=> \/ Len(notification) < 2
                \/ (notification[1] % 2 = 1 /\ Len(notification) < 3))

\* the payload [0x01, 0x01] was decoded to no value
ShortSixteenBitDecoded ==
    /\ "corebluetooth" \in DOMAIN returned
    /\ notification = <<1, 1>>
    /\ returned["corebluetooth"] = None

\* C8: for a payload of 2 bytes or more with bit 0 of byte 0 clear,
\* parse_hr_measurement returns byte 1, whatever the other flag bits and the
\* bytes after byte 1 are.
EightBitIsByteOne ==
    ("corebluetooth" \in DOMAIN returned
        /\ Len(notification) >= 2
        /\ notification[1] % 2 = 0)
    => returned["corebluetooth"] = notification[2]

\* a payload with the other seven flag bits set and trailing bytes decoded
EightBitWithFlagsDecoded ==
    /\ "corebluetooth" \in DOMAIN returned
    /\ notification = <<254, 72, 255, 1>>
    /\ returned["corebluetooth"] = 72

\* C9: for a payload of 3 bytes or more with bit 0 of byte 0 set,
\* parse_hr_measurement returns byte1 + 256 * byte2, a value in 0..65535,
\* whatever the other flag bits and the bytes after byte 2 are.
SixteenBitIsLittleEndian ==
    ("corebluetooth" \in DOMAIN returned
        /\ Len(notification) >= 3
        /\ notification[1] % 2 = 1)
    => /\ returned["corebluetooth"] = notification[2] + 256 * notification[3]
       /\ returned["corebluetooth"] \in 0..65535

\* a 16-bit payload with a non-zero high byte, other flags and a trailing byte
SixteenBitDecoded ==
    /\ "corebluetooth" \in DOMAIN returned
    /\ notification = <<255, 72, 1, 2>>
    /\ returned["corebluetooth"] = 328

\* C10: the four copies of the decoder return the same result for every
\* payload, and applying one changes nothing but its own result.
DecodersAgree ==
    /\ [](\A c1 \in DOMAIN returned, c2 \in DOMAIN returned :
              returned[c1] = returned[c2])
    /\ [][UNCHANGED <<delegateVars, configVars, written, stackVars, calls,
                      connect_at,
                      now, tickVars, notification>>]_vars

\* every copy has decoded a 16-bit payload
AllCopiesDecoded ==
    /\ DOMAIN returned = Copies
    /\ notification = <<1, 72, 1>>
    /\ returned["broadcast"] = 328

\* ------------------------------------------------------------------------
\* Blocking, deferral, scanning and capacity
\* ------------------------------------------------------------------------
\* device d is under a block that no discovery or connect request of this
\* connection can still disturb
QuietBlock(d) ==
    /\ d \in DOMAIN blocked_ids /\ now < blocked_ids[d]
    /\ d \notin DOMAIN pending_reconnect
    /\ d \notin connecting_ids
    /\ d \notin conn_req
    /\ d \notin svc_req
    /\ chr_req[d] = 0

\* C11: a service discovery that ends without error and without the Heart
\* Rate service blocks the device until now + 60 s and asks for its
\* disconnection; from then on, for as long as the block has not expired,
\* the device has no reconnect entry and no connect request is issued for
\* it, the disconnect callback included
MissingServiceBlocksUntilExpiry ==
    [][\A d \in Devices :
          /\ DidDiscoverServices(d, FALSE, 0) =>
                 /\ blocked_ids'[d] = now + blocked_ttl
                 /\ d \in Requested(calls', "cancel")
                 /\ QuietBlock(d)'
          /\ (QuietBlock(d) /\ d \in DOMAIN blocked_ids'
                            /\ now' < blocked_ids'[d]) =>
                 /\ QuietBlock(d)'
                 /\ d \notin Requested(calls', "connect")
                 /\ DidDisconnectPeripheral(d) =>
                        d \notin DOMAIN pending_reconnect']_vars

\* a device blocked for want of the service has been disconnected, half of
\* the block's duration has passed and nothing reconnects it
MissingServiceBlockHeld ==
    /\ now > 0
    /\ QuietBlock("d1")
    /\ "d1" \notin connected_ids /\ "d1" \notin link_up
    /\ "d1" \in peripherals

\* C12: with an output file configured, a valid notification of a connected,
\* subscribed device appends exactly one record, which carries that device's
\* id and the beats per minute decoded from the payload (byte 1, or bytes 1
\* and 2 little-endian when bit 0 of the flags is set); nothing else appends
\* a record
HappyPathWritesOneRecord ==
    [][/\ \A d \in Devices, v \in NotifiedPayloads :
              (/\ DidUpdateValue(d, "value", v)
               /\ outfile
               /\ Len(v) >= 2
               /\ v[1] % 2 = 1 => Len(v) >= 3) =>
                  /\ Len(written') = Len(written) + 1
                  /\ SubSeq(written', 1, Len(written)) = written
                  /\ written'[Len(written')].id = d
                  /\ written'[Len(written')].bpm =
                         IF v[1] % 2 = 0 THEN v[2] ELSE v[2] + 256 * v[3]
       /\ written' # written =>
              \E d \in Devices, v \in NotifiedPayloads :
                  DidUpdateValue(d, "value", v)]_vars

\* discovery, connection, both discoveries and one notification of 72 beats
\* per minute have left one record of the subscribed device
OneRecordOfSubscribedDevice ==
    /\ outfile
    /\ Len(written) = 1
    /\ written[1].id = "d1" /\ written[1].bpm = 72
    /\ "d1" \in peripherals /\ "d1" \in connected_ids
    /\ "d1" \in notifying /\ chr_req["d1"] = 0
    /\ calls = << <<"_write_hr", "d1">> >>

\* C13: _should_defer_non_preferred answers true exactly when preferred_names
\* is not empty, a scan is active and less than the grace period has passed
\* since the scan started; with no preferred names it answers false whatever
\* the scan state and the time
ShouldDeferIffPreferredScanningInGrace ==
    /\ ShouldDeferNonPreferred(last_scan_start, now) <=>
           /\ preferred_names # <<>>
           /\ scanning
           /\ now - last_scan_start < 6
    /\ \A lss \in {0, now}, dt \in 0..12 :
           ShouldDeferNonPreferred(lss, lss + dt) <=>
               (preferred_names # <<>> /\ dt < 6)
    /\ \A t \in {0, now, MaxTime} :
           ~ShouldDeferNonPreferred(None, t)

\* with a preferred name configured and the scan just started, the discovery
\* of a device without that name was deferred
DeferredDuringGrace ==
    /\ preferred_names # <<>> /\ scanning
    /\ now - last_scan_start < 6
    /\ ShouldDeferNonPreferred(last_scan_start, now)
    /\ "d2" \in peripherals /\ "d2" \notin connecting_ids
    /\ "d2" \notin connected_ids /\ connecting_ids = {}
    /\ connected_ids = {}

\* C14: while the grace period of a scan runs with a preferred name
\* configured, the discovery of a device that passes the filters and has the
\* preferred substring neither in peripheral.name() nor in the advertised
\* local name caches the handle and the name, asks for no connection and
\* leaves connecting_ids as it was; the discovery of a device that has the
\* substring in either name, in whatever case, goes on to the capacity test
\* and is connected when there is room
DeferralSparesPreferred ==
    [][\A d \in Devices, adv \in AdvNames :
          (/\ DidDiscoverPeripheral(d, adv)
           /\ preferred_names # <<>> /\ scanning
           /\ now - last_scan_start < 6
           /\ MatchDevice(blocked_ids, d, adv, now).ok) =>
              IF pname[d] # MyWatch /\ adv # MyWatch
              THEN /\ d \in peripherals'
                   /\ pname[d] # NoName =>
                          d \in DOMAIN name_by_id'
                          /\ name_by_id'[d] = pname[d]
                   /\ calls' = <<>>
                   /\ conn_req' = conn_req
                   /\ connecting_ids' = connecting_ids
              ELSE IF Cardinality(connected_ids)
                          + Cardinality(connecting_ids) >= max_devices
                   THEN connecting_ids' = connecting_ids /\ calls' = <<>>
                   ELSE d \notin connected_ids =>
                            /\ d \in connecting_ids'
                            /\ d \in Requested(calls', "connect")]_vars

\* within the grace period the discovery of the generic sensor has cached
\* its handle and name and has connected nothing
GenericSensorDeferred ==
    /\ preferred_names # <<>> /\ scanning
    /\ now - last_scan_start < 6
    /\ "d2" \in peripherals
    /\ "d2" \in DOMAIN name_by_id /\ name_by_id["d2"] = GenericSensor
    /\ connecting_ids = {} /\ connected_ids = {}
    /\ conn_req = {} /\ calls = <<>>
    /\ "d1" \notin peripherals

\* C15: _start_scan with the scanning flag set and _stop_scan with the flag
\* clear do nothing: they return the state they were given, no scan or
\* stopScan request reaches the central manager, and scanning and
\* last_scan_start keep their values, so that a start repeated after the
\* power came back does not restart the grace period
ScanCallsIdempotent ==
    [][LET cur == [scanning |-> scanning, lss |-> last_scan_start,
                   calls |-> <<>>]
       IN  /\ scanning => StartScan(cur, central, now) = cur
           /\ ~scanning => StopScan(cur, central) = cur
           /\ \A lst \in Retrievable :
                  (scanning /\ DidUpdateState(TRUE, lst)) =>
                      /\ "any" \notin Requested(calls', "scan")
                      /\ scanning'
                      /\ last_scan_start' = last_scan_start
           /\ (~scanning /\ ~Advance) =>
                  "any" \notin Requested(calls', "stopScan")
           /\ (scanning /\ ~Advance
                         /\ "any" \notin Requested(calls', "stopScan")) =>
                  /\ "any" \notin Requested(calls', "scan")
                  /\ scanning'
                  /\ last_scan_start' = last_scan_start]_vars

\* the power came back while the scanning flag was still set: the start was
\* skipped, the grace period still counts from the first start
StartSkippedAfterPowerCycle ==
    /\ central /\ powered
    /\ scanning /\ ~t_scanning
    /\ last_scan_start = 0 /\ now > 0
    /\ calls = <<>>

\* C16: when the connected and the connecting devices together reach
\* max_devices, no step (discovery, retrieval at power-on, reconnect tick)
\* adds a device to connecting_ids or asks for a connection
ConnectOnlyBelowCapacity ==
    [][(/\ max_devices # None
        /\ Cardinality(connected_ids) + Cardinality(connecting_ids)
               >= max_devices
        /\ ~Advance) =>
           /\ connecting_ids' \subseteq connecting_ids
           /\ Requested(calls', "connect") = {}]_vars

\* C17: a discovery callback that arrives when the connected and the
\* connecting devices together have reached max_devices asks for no
\* disconnection and no connection, and leaves connected_ids,
\* connecting_ids, pending_reconnect and blocked_ids as they were, apart
\* from dropping the discovered device's expired block entry; of the cached
\* handles and names only those of the discovered device may change
DiscoveryAtCapacityChangesNothing ==
    [][\A d \in Devices, adv \in AdvNames :
          (/\ DidDiscoverPeripheral(d, adv)
           /\ max_devices # None
           /\ Cardinality(connected_ids) + Cardinality(connecting_ids)
                  >= max_devices) =>
              /\ calls' = <<>>
              /\ conn_req' = conn_req
              /\ connected_ids' = connected_ids
              /\ connecting_ids' = connecting_ids
              /\ pending_reconnect' = pending_reconnect
              /\ \/ blocked_ids' = blocked_ids
                 \/ /\ d \in DOMAIN blocked_ids
                    /\ blocked_ids[d] <= now
                    /\ blocked_ids' = Remove(blocked_ids, d)
              /\ peripherals' \ {d} = peripherals \ {d}
              /\ d \in peripherals'
              /\ \A e \in Devices \ {d} :
                     /\ e \in DOMAIN name_by_id' <=> e \in DOMAIN name_by_id
                     /\ e \in DOMAIN name_by_id =>
                            name_by_id'[e] = name_by_id[e]]_vars

\* with the one allowed device connected, the discovery of a second device
\* that advertises a preferred name has cached it and left the connection
\* alone
SecondDeviceSeenAtCapacity ==
    /\ max_devices = 1
    /\ connected_ids = {"d1"} /\ connecting_ids = {}
    /\ "d1" \in notifying
    /\ "d2" \in peripherals
    /\ "d2" \in DOMAIN name_by_id /\ name_by_id["d2"] = MyWatch
    /\ "d2" \notin DOMAIN blocked_ids
    /\ calls = <<>> /\ conn_req = {}
    /\ pending_reconnect = EmptyDict

\* C18: a characteristic discovery that ends without error and without the
\* Heart Rate Measurement characteristic blocks the device until
\* now + blocked_ttl, removes its pending reconnect entry, asks the central
\* manager to cancel the connection and enables no notification
MissingCharacteristicBlocks ==
    [][\A d \in Devices :
          DidDiscoverCharacteristics(d, FALSE, FALSE) =>
              /\ d \in DOMAIN blocked_ids'
              /\ blocked_ids'[d] = now + 60
              /\ d \notin DOMAIN pending_reconnect'
              /\ calls' = << <<"cancel", d>> >>
              /\ notifying' = notifying]_vars

\* the first of two Heart Rate service instances turned out to lack the
\* characteristic: the device is blocked and its disconnection requested
BlockedForMissingCharacteristic ==
    /\ "d1" \in connected_ids /\ chr_req["d1"] = 1
    /\ "d1" \in DOMAIN blocked_ids /\ blocked_ids["d1"] = now + 60
    /\ "d1" \notin DOMAIN pending_reconnect
    /\ "d1" \notin notifying
    /\ calls = << <<"cancel", "d1">> >>

\* C19, as claimed: a service discovery that reports an error creates a
\* block entry until now + blocked_ttl for the device and asks the central
\* manager to cancel its connection, as the absence of the Heart Rate
\* service does
ServiceErrorBlocks ==
    [][\A d \in Devices :
          DidDiscoverServices(d, TRUE, 0) =>
              /\ d \in DOMAIN blocked_ids'
              /\ blocked_ids'[d] = now + 60
              /\ d \in Requested(calls', "cancel")]_vars

\* C19, amended: a service discovery that reports an error creates no block
\* entry and asks for no disconnection; it schedules a reconnect, an entry
\* at now + reconnect_interval unless the device already has one, and leaves
\* the device in connected_ids
ServiceErrorSchedulesReconnect ==
    [][\A d \in Devices :
          DidDiscoverServices(d, TRUE, 0) =>
              /\ blocked_ids' = blocked_ids
              /\ calls' = <<>>
              /\ connected_ids' = connected_ids
              /\ d \in DOMAIN pending_reconnect'
              /\ IF d \in DOMAIN pending_reconnect
                 THEN pending_reconnect' = pending_reconnect
                 ELSE pending_reconnect'[d] = now + 5]_vars

\* the service discovery of a connected device failed: a reconnect is
\* scheduled, the device is neither blocked nor asked to disconnect
ReconnectScheduledAfterServiceError ==
    /\ "d1" \in connected_ids /\ "d1" \in link_up
    /\ "d1" \notin svc_req /\ chr_req["d1"] = 0
    /\ "d1" \notin notifying
    /\ "d1" \in DOMAIN pending_reconnect
    /\ pending_reconnect["d1"] = now + 5
    /\ "d1" \notin DOMAIN blocked_ids
    /\ calls = <<>>

\* C20: after the connect-failure callback, the disconnect callback, or a
\* service or characteristic discovery callback with an error, for a device
\* without an unexpired block entry, pending_reconnect has an entry for the
\* device that is due no later than now + reconnect_interval, and the
\* membership of every other device in connected_ids, connecting_ids and
\* blocked_ids is as before
FailureSchedulesReconnect ==
    [][\A d \in Devices :
          (/\ \/ DidFailToConnectPeripheral(d)
              \/ DidDisconnectPeripheral(d)
              \/ DidDiscoverServices(d, TRUE, 0)
              \/ DidDiscoverCharacteristics(d, TRUE, FALSE)
           /\ ~(d \in DOMAIN blocked_ids /\ now < blocked_ids[d])) =>
              /\ d \in DOMAIN pending_reconnect'
              /\ pending_reconnect'[d] <= now + 5
              /\ connected_ids' \ {d} = connected_ids \ {d}
              /\ connecting_ids' \ {d} = connecting_ids \ {d}
              /\ \A e \in Devices \ {d} :
                     /\ e \in DOMAIN blocked_ids' <=> e \in DOMAIN blocked_ids
                     /\ e \in DOMAIN blocked_ids =>
                            blocked_ids'[e] = blocked_ids[e]]_vars

\* a connection that had been up was lost after the start: the device is
\* due for a reconnect one interval from now
ReconnectScheduledAfterDisconnect ==
    /\ now > 0
    /\ "d1" \notin connected_ids /\ "d1" \notin link_up
    /\ "d1" \notin connecting_ids
    /\ "d1" \in DOMAIN pending_reconnect
    /\ pending_reconnect["d1"] = now + 5
    /\ "d1" \notin DOMAIN blocked_ids
    /\ calls = <<>>

\* ------------------------------------------------------------------------
\* Recovery and the reconnect tick
\* ------------------------------------------------------------------------
\* C21: the reconnect entry that a discovery error left for a connected,
\* unblocked device is not discarded without an attempt: with the transport
\* powered on, the tick that finds the entry due either keeps it or asks for
\* a connection of the device or for a scan
DiscoveryErrorEntryAttempted ==
    [][\A d \in Devices :
          (/\ Tick
           /\ central /\ powered
           /\ d \in connected_ids
           /\ d \notin DOMAIN blocked_ids
           /\ d \in DOMAIN pending_reconnect
           /\ pending_reconnect[d] <= now) =>
              \/ d \in DOMAIN pending_reconnect'
              \/ d \in Requested(calls', "connect")
              \/ "any" \in Requested(calls', "scan")]_vars

\* C22: the disconnect callback takes the device out of connected_ids; it
\* schedules a reconnect (a new entry at now + reconnect_interval, or the
\* entry the device already has) exactly when blocked_ids holds no unexpired
\* entry of the device, and leaves pending_reconnect as it is otherwise
DisconnectSchedulesUnlessBlocked ==
    [][\A d \in Devices :
          DidDisconnectPeripheral(d) =>
              /\ d \notin connected_ids'
              /\ connected_ids' = connected_ids \ {d}
              /\ IF d \in DOMAIN blocked_ids /\ now < blocked_ids[d]
                 THEN pending_reconnect' = pending_reconnect
                 ELSE /\ d \in DOMAIN pending_reconnect'
                      /\ IF d \in DOMAIN pending_reconnect
                         THEN pending_reconnect' = pending_reconnect
                         ELSE /\ pending_reconnect'[d] = now + 5
                              /\ DOMAIN pending_reconnect' =
                                     DOMAIN pending_reconnect \cup {d}]_vars

\* the disconnection that followed a block has scheduled nothing, while the
\* other device, not blocked, lost its connection and is due for a reconnect
BlockedDisconnectedUnscheduled ==
    /\ "d1" \in DOMAIN blocked_ids /\ now < blocked_ids["d1"]
    /\ "d1" \notin connected_ids /\ "d1" \notin link_up
    /\ "d1" \notin DOMAIN pending_reconnect
    /\ "d1" \in peripherals
    /\ "d2" \in DOMAIN pending_reconnect
    /\ "d2" \notin connected_ids /\ "d2" \notin connecting_ids

\* C23: after the connect-success callback the device is in connected_ids,
\* not in connecting_ids, has no entry in pending_reconnect, and the
\* discovery of its Heart Rate service is outstanding; an entry leaves
\* pending_reconnect only in a connect-success callback of its device, in a
\* callback that blocks its device, or in a tick that finds its device in
\* connected_ids
ConnectSuccessClearsPending ==
    [][\A d \in Devices :
          /\ DidConnectPeripheral(d) =>
                 /\ d \in connected_ids'
                 /\ d \notin connecting_ids'
                 /\ d \notin DOMAIN pending_reconnect'
                 /\ d \in svc_req'
          /\ (d \in DOMAIN pending_reconnect
                  /\ d \notin DOMAIN pending_reconnect') =>
                 \/ DidConnectPeripheral(d)
                 \/ /\ \/ DidDiscoverServices(d, FALSE, 0)
                       \/ DidDiscoverCharacteristics(d, FALSE, FALSE)
                    /\ d \in DOMAIN blocked_ids'
                    /\ now < blocked_ids'[d]
                 \/ Tick /\ d \in connected_ids]_vars

\* the connection that tick asked for after a failure has come up: the
\* entry is gone and the service discovery is under way
ReconnectedAndCleared ==
    /\ now > 0
    /\ "d1" \in connected_ids /\ "d1" \notin connecting_ids
    /\ "d1" \notin DOMAIN pending_reconnect
    /\ "d1" \in svc_req /\ "d1" \in link_up
    /\ "d1" \notin conn_req
    /\ calls = <<>>

\* C24: a tick that finds the central manager absent or not powered on sets
\* every entry of pending_reconnect to now + reconnect_interval, makes no
\* connect, scan or stopScan request, and leaves connected_ids,
\* connecting_ids, blocked_ids, the scan state and the keys of
\* pending_reconnect as they were
NotReadyTickPushesEveryEntry ==
    [][(Tick /\ (~central \/ ~powered)) =>
           /\ DOMAIN pending_reconnect' = DOMAIN pending_reconnect
           /\ \A d \in DOMAIN pending_reconnect :
                  pending_reconnect'[d] = now + 5
           /\ calls' = <<>>
           /\ conn_req' = conn_req
           /\ connected_ids' = connected_ids
           /\ connecting_ids' = connecting_ids
           /\ blocked_ids' = blocked_ids
           /\ scanning' = scanning
           /\ last_scan_start' = last_scan_start]_vars

\* with the power off, a tick later than the entry was made has pushed it
\* to one interval from now
EntryPushedWhilePoweredOff ==
    /\ central /\ ~powered
    /\ now > 0
    /\ "d1" \in DOMAIN pending_reconnect
    /\ pending_reconnect["d1"] = now + 5
    /\ "d1" \in connected_ids
    /\ calls = <<>>

\* C25: in a tick with the power on, an entry that is not yet due is left as
\* it is; a due entry of a device in connected_ids is dropped and a due
\* entry of a device in connecting_ids is set to now + reconnect_interval,
\* in both cases without a connect request for the device; a tick whose due
\* entries are all of these two kinds makes no request at all
TickSkipsConnectedAndConnecting ==
    [][(Tick /\ central /\ powered) =>
           /\ \A d \in DOMAIN pending_reconnect :
                  IF now < pending_reconnect[d]
                  THEN /\ d \in DOMAIN pending_reconnect'
                       /\ pending_reconnect'[d] = pending_reconnect[d]
                  ELSE IF d \in connected_ids
                  THEN /\ d \notin DOMAIN pending_reconnect'
                       /\ d \notin Requested(calls', "connect")
                       /\ d \notin connecting_ids'
                  ELSE d \in connecting_ids =>
                           /\ d \in DOMAIN pending_reconnect'
                           /\ pending_reconnect'[d] = now + 5
                           /\ d \notin Requested(calls', "connect")
           /\ (\A d \in DOMAIN pending_reconnect :
                   \/ now < pending_reconnect[d]
                   \/ d \in connected_ids
                   \/ d \in connecting_ids) =>
                  /\ calls' = <<>>
                  /\ connecting_ids' = connecting_ids
                  /\ conn_req' = conn_req
                  /\ scanning' = scanning
                  /\ last_scan_start' = last_scan_start]_vars

\* the entry that a failed service discovery left for a device that stayed
\* connected has been dropped by a tick
ConnectedEntryDropped ==
    /\ central /\ powered /\ now > 0
    /\ "d1" \in connected_ids /\ "d1" \in link_up
    /\ "d1" \notin svc_req /\ chr_req["d1"] = 0
    /\ "d1" \notin notifying
    /\ "d1" \notin DOMAIN blocked_ids
    /\ "d1" \notin DOMAIN pending_reconnect
    /\ calls = <<>>

\* what one round of tick's loop makes of a due entry of device d, had the
\* device such an entry in the present state
DueRound(d) ==
    TickItem([pend |-> Put(pending_reconnect, d, now),
              cing |-> connecting_ids, scanning |-> scanning,
              lss |-> last_scan_start, calls |-> <<>>, crashed |-> FALSE],
             d, now, now)

\* C26: in a tick with the power on, a due entry of a device that is neither
\* connected nor connecting stays in pending_reconnect at
\* now + reconnect_interval; when the handle of the device is cached the
\* device joins connecting_ids and one connect request is made for it; when
\* no handle is cached no connect request is made and the scan is started,
\* after a stop when it was running
TickAttemptsOrRescans ==
    [][/\ (Tick /\ central /\ powered) =>
              \A d \in DOMAIN pending_reconnect :
                  (/\ pending_reconnect[d] <= now
                   /\ d \notin connected_ids
                   /\ d \notin connecting_ids
                   /\ d \in peripherals) =>
                      /\ d \in DOMAIN pending_reconnect'
                      /\ pending_reconnect'[d] = now + 5
                      /\ d \in connecting_ids'
                      /\ d \in conn_req'
                      /\ Cardinality({i \in 1..Len(calls') :
                             calls'[i] = <<"connect", d>>}) = 1
       /\ central =>
              \A d \in Devices \ (peripherals \cup connected_ids
                                      \cup connecting_ids) :
                  /\ DueRound(d).pend[d] = now + 5
                  /\ DueRound(d).cing = connecting_ids
                  /\ DueRound(d).calls =
                         IF scanning
                         THEN << <<"stopScan", "any">>, <<"scan", "any">> >>
                         ELSE << <<"scan", "any">> >>
                  /\ DueRound(d).scanning
                  /\ DueRound(d).lss = now]_vars

\* a tick has asked once for the connection of a cached device whose
\* connection had failed, and has re-armed its entry
TickAskedForConnection ==
    /\ central /\ powered /\ now > 0
    /\ "d1" \in peripherals
    /\ "d1" \in connecting_ids /\ "d1" \notin connected_ids
    /\ "d1" \in conn_req
    /\ "d1" \in DOMAIN pending_reconnect
    /\ pending_reconnect["d1"] = now + 5
    /\ calls = << <<"connect", "d1">> >>

ValueUpdateLeavesConnectionState ==
    [][\A d \in Devices, kind \in {"error", "novalue", "value"},
          v \in NotifiedPayloads :
          DidUpdateValue(d, kind, v) =>
              /\ connected_ids' = connected_ids
              /\ connecting_ids' = connecting_ids
              /\ pending_reconnect' = pending_reconnect
              /\ blocked_ids' = blocked_ids
              /\ scanning' = scanning
              /\ last_scan_start' = last_scan_start
              /\ conn_req' = conn_req
              /\ t_scanning' = t_scanning
              /\ Requested(calls', "connect") = {}
              /\ Requested(calls', "cancel") = {}
              /\ (\/ kind # "value"
                  \/ Len(v) < 2
                  \/ (v[1] % 2 = 1 /\ Len(v) < 3)) =>
                     /\ written' = written
                     /\ calls' = <<>>]_vars

\* a sample of the connected device was emitted while the other device
\* waits for its reconnect and the scan goes on
SampleEmittedBesidePending ==
    /\ calls = << <<"_write_hr", "d1">> >>
    /\ "d1" \in connected_ids /\ "d1" \in notifying
    /\ "d2" \in DOMAIN pending_reconnect
    /\ "d2" \notin connected_ids
    /\ scanning

\* C29: once a name from an advertisement is cached for a device, a name
\* update that carries no advertisement, the one made on each value
\* notification or on the retrieval at power-on, does not replace it by the
\* name of the peripheral
AdvertisedNameKept ==
    [][\A d \in Devices :
          (/\ d \in DOMAIN name_by_id
           /\ name_by_id[d] # pname[d]
           /\ \/ \E kind \in {"error", "novalue", "value"},
                    v \in NotifiedPayloads : DidUpdateValue(d, kind, v)
              \/ \E lst \in Retrievable : DidUpdateState(TRUE, lst)) =>
              /\ d \in DOMAIN name_by_id'
              /\ name_by_id'[d] = name_by_id[d]]_vars

\* C30: a device leaves the idle state for connecting_ids, on a discovery
\* callback or as a peripheral retrieved at power-on, only past the block
\* test, the preferred-device deferral and the capacity test: no connection
\* is asked for a device with an unexpired block, nor when the connected
\* and connecting devices have reached max_devices, nor, while the grace
\* period of a scan runs, for a device without a preferred name
IdleToConnectingPassesAllChecks ==
    [][\A d \in Devices :
          LET blocked == d \in DOMAIN blocked_ids /\ now < blocked_ids[d]
              full == /\ max_devices # None
                      /\ Cardinality(connected_ids)
                             + Cardinality(connecting_ids) >= max_devices
              grace == /\ preferred_names # <<>> /\ scanning
                       /\ now - last_scan_start < 6
              idle == /\ d \notin Requested(calls', "connect")
                      /\ d \in connecting_ids' => d \in connecting_ids
          IN  /\ \A adv \in AdvNames :
                     (/\ DidDiscoverPeripheral(d, adv)
                      /\ \/ blocked
                         \/ full
                         \/ grace /\ pname[d] # MyWatch /\ adv # MyWatch)
                         => idle
              /\ \A lst \in Retrievable :
                     (/\ DidUpdateState(TRUE, lst)
                      /\ \/ blocked
                         \/ full
                         \/ grace /\ pname[d] # MyWatch)
                         => idle]_vars

\* ------------------------------------------------------------------------
\* Blocks, connection attempts and the scan flag over time
\* ------------------------------------------------------------------------
\* C31: while blocked_ids holds an unexpired entry of a device, no step, be
\* it a discovery callback, the retrieval at power-on or the reconnect
\* tick, asks for its connection or adds it to connecting_ids
BlockedNeverConnected ==
    [][\A d \in Devices :
          (/\ ~Advance
           /\ d \in DOMAIN blocked_ids
           /\ now < blocked_ids[d]) =>
              /\ d \notin Requested(calls', "connect")
              /\ d \in connecting_ids' => d \in connecting_ids]_vars

\* C32: a block expires by itself. Once now has reached the time of the
\* entry, the next discovery of the device removes the entry and goes on
\* as for a device that was never blocked, connecting it when it passes the
\* filters, the deferral and the capacity test, and a disconnect callback
\* of the device schedules a reconnect; while the time of the entry has not
\* come the entry is not removed and its time is not brought forward
BlockExpiresLazily ==
    [][\A d \in Devices :
          /\ (d \in DOMAIN blocked_ids /\ blocked_ids[d] <= now) =>
                 /\ \A adv \in AdvNames :
                        DidDiscoverPeripheral(d, adv) =>
                            /\ d \notin DOMAIN blocked_ids'
                            /\ (/\ MatchDevice(Remove(blocked_ids, d), d,
                                               adv, now).ok
                                /\ \/ pname[d] = MyWatch
                                   \/ adv = MyWatch
                                   \/ ~(/\ preferred_names # <<>>
                                        /\ scanning
                                        /\ now - last_scan_start < 6)
                                /\ \/ max_devices = None
                                   \/ Cardinality(connected_ids)
                                        + Cardinality(connecting_ids)
                                          < max_devices
                                /\ d \notin connected_ids
                                /\ d \notin connecting_ids) =>
                                   /\ d \in connecting_ids'
                                   /\ d \in Requested(calls', "connect")
                 /\ DidDisconnectPeripheral(d) =>
                        d \in DOMAIN pending_reconnect'
          /\ (d \in DOMAIN blocked_ids /\ now < blocked_ids[d]
                  /\ ~Advance) =>
                 /\ d \in DOMAIN blocked_ids'
                 /\ blocked_ids'[d] >= blocked_ids[d]]_vars

\* the block of the device has run out, its entry not yet removed, and the
\* disconnection that came after has scheduled a reconnect
ReconnectScheduledAfterExpiry ==
    /\ "d1" \in DOMAIN blocked_ids /\ blocked_ids["d1"] <= now
    /\ "d1" \notin connected_ids /\ "d1" \notin link_up
    /\ "d1" \notin connecting_ids
    /\ "d1" \in DOMAIN pending_reconnect
    /\ pending_reconnect["d1"] = now + 5
    /\ connect_at["d1"] = None
    /\ calls = <<>>

\* C33: no connection is asked for a device that is in connected_ids or in
\* connecting_ids: a discovery callback, a retrieval at power-on and a tick
\* that meet such a device make no connect request for it and leave it
\* where it is in both sets, and a connect request is made only for a
\* device that has none outstanding
NoConnectWhileConnectedOrConnecting ==
    [][\A d \in Devices :
          /\ (~Advance /\ (d \in connected_ids \/ d \in connecting_ids)) =>
                 /\ d \notin Requested(calls', "connect")
                 /\ (\/ \E adv \in AdvNames : DidDiscoverPeripheral(d, adv)
                     \/ \E lst \in Retrievable : DidUpdateState(TRUE, lst)
                     \/ Tick) =>
                        /\ d \in connected_ids' <=> d \in connected_ids
                        /\ d \in connecting_ids' <=> d \in connecting_ids
          /\ (~Advance /\ d \in Requested(calls', "connect")) =>
                 d \notin conn_req]_vars

\* C34: a device leaves connecting_ids only in the connect-success or the
\* connect-failure callback for it; while it is there it counts against
\* max_devices, and while its connect request is unanswered no second
\* connect request is made for it
ConnectingLeftOnlyByAnswer ==
    [][\A d \in Devices :
          d \in connecting_ids =>
              /\ d \notin connecting_ids' =>
                     \/ DidConnectPeripheral(d)
                     \/ DidFailToConnectPeripheral(d)
              /\ (d \in connecting_ids' /\ max_devices' = 1) =>
                     AtCapacity(connected_ids', connecting_ids')
              /\ (~Advance /\ d \in conn_req) =>
                     d \notin Requested(calls', "connect")]_vars

\* C35: the callback that reports the power gone leaves scanning,
\* last_scan_start, connected_ids and connecting_ids as they were; no step
\* other than a tick clears a set scanning flag; and the callback that
\* reports the power back with the flag still set sends no scan request, so
\* the central manager stays without a scan
PowerLossKeepsScanFlag ==
    [][/\ (\E lst \in Retrievable : DidUpdateState(FALSE, lst)) =>
              /\ scanning' = scanning
              /\ last_scan_start' = last_scan_start
              /\ connected_ids' = connected_ids
              /\ connecting_ids' = connecting_ids
       /\ (scanning /\ ~scanning') => Tick
       /\ (scanning /\ \E lst \in Retrievable : DidUpdateState(TRUE, lst)) =>
              /\ "any" \notin Requested(calls', "scan")
              /\ t_scanning' = t_scanning
              /\ ~t_scanning']_vars

\* the power went while a device was connected and a scan was running: the
\* flag and the start time of the scan are those of before
ScanFlagKeptWithoutPower ==
    /\ central /\ ~powered
    /\ scanning /\ ~t_scanning
    /\ last_scan_start = 0 /\ now > 0
    /\ "d1" \in connected_ids
    /\ calls = <<>>

\* a discovery of device d advertising adv, at this moment, passes
\* _match_device and is then stopped by the deferral of non-preferred
\* devices or by the capacity test
Suppressed(d, adv) ==
    /\ MatchDevice(blocked_ids, d, adv, now).ok
    /\ \/ ~IsPreferred(d, adv)
          /\ ShouldDeferNonPreferred(last_scan_start, now)
       \/ AtCapacity(connected_ids, connecting_ids)

\* the devices a tick run at time t in the present state asks to connect
TickConnects(t) ==
    IF DOMAIN pending_reconnect = {} \/ ~central \/ ~powered THEN {}
    ELSE Requested(TickLoop([pend |-> pending_reconnect,
                             cing |-> connecting_ids,
                             scanning |-> scanning,
                             lss |-> last_scan_start, calls |-> <<>>,
                             crashed |-> FALSE],
                            Items(pending_reconnect), t).calls,
                   "connect")

\* the times from now on at which a tick can run
TickTimes == {t \in now..MaxTime : (t - now) % TimeStep = 0}

\* C36: a discovery stopped by the deferral or by the capacity test changes
\* none of connected_ids, connecting_ids and pending_reconnect and asks for
\* no connection, and in the state it leaves no tick, at once or when time
\* has passed, asks for a connection to the device
SuppressedDiscoveryLeavesNoWork ==
    [][\A d \in Devices, adv \in AdvNames :
          (DidDiscoverPeripheral(d, adv) /\ Suppressed(d, adv)) =>
              /\ connected_ids' = connected_ids
              /\ connecting_ids' = connecting_ids
              /\ pending_reconnect' = pending_reconnect
              /\ Requested(calls', "connect") = {}
              /\ \A t \in TickTimes : d \notin TickConnects(t)']_vars

\* C36 as the code has it: a discovery stopped by the deferral or by the
\* capacity test changes none of connected_ids, connecting_ids and
\* pending_reconnect and asks for no connection; a tick afterwards asks for
\* a connection to the device only when the device has an entry in
\* pending_reconnect that is due, an entry the discovery found there; and the
\* passing of time alone asks for nothing
SuppressedDiscoveryAddsNoWork ==
    [][/\ \A d \in Devices, adv \in AdvNames :
              (DidDiscoverPeripheral(d, adv) /\ Suppressed(d, adv)) =>
                  /\ connected_ids' = connected_ids
                  /\ connecting_ids' = connecting_ids
                  /\ pending_reconnect' = pending_reconnect
                  /\ Requested(calls', "connect") = {}
                  /\ \A t \in TickTimes :
                         d \in TickConnects(t)' =>
                             /\ d \in DOMAIN pending_reconnect
                             /\ pending_reconnect[d] <= t
       /\ Tick =>
              \A d \in Requested(calls', "connect") :
                  /\ d \in DOMAIN pending_reconnect
                  /\ pending_reconnect[d] <= now
       /\ Advance =>
              /\ connecting_ids' = connecting_ids
              /\ conn_req' = conn_req /\ calls' = calls]_vars

\* a device with a reconnect scheduled is seen again while another device
\* fills the only place: the discovery left the entry as it was
PendingDeviceSeenAtCapacity ==
    /\ max_devices = 1
    /\ powered /\ t_scanning
    /\ "d1" \in connected_ids
    /\ "d2" \in peripherals /\ "d2" \in DOMAIN name_by_id
    /\ "d2" \in DOMAIN pending_reconnect
    /\ "d2" \notin connecting_ids /\ "d2" \notin connected_ids
    /\ "d2" \notin DOMAIN blocked_ids
    /\ calls = <<>>

\* C37: with callbacks delivered only for the peripherals asked for, every
\* device with an entry in pending_reconnect has its handle in peripherals,
\* before and after every step; hence no step asks the central manager to
\* stop the scan, and no tick, whole or in steps, asks it to scan
PendingOnlyForCached ==
    [][/\ DOMAIN pending_reconnect \subseteq peripherals
       /\ DOMAIN pending_reconnect' \subseteq peripherals'
       /\ ~Advance => "any" \notin Requested(calls', "stopScan")
       /\ (Tick \/ TickSteps) =>
              /\ "any" \notin Requested(calls', "scan")
              /\ scanning' = scanning
              /\ last_scan_start' = last_scan_start]_vars

\* a due entry of a cached device was retried with a connect request, the
\* scan of the start left running
CachedEntryRetriedScanKept ==
    /\ central /\ powered /\ now > 0
    /\ scanning /\ t_scanning /\ last_scan_start = 0
    /\ "d2" \in peripherals
    /\ "d2" \in connecting_ids
    /\ "d2" \in DOMAIN pending_reconnect
    /\ pending_reconnect["d2"] = now + 5
    /\ calls = << <<"connect", "d2">> >>

\* C38: _schedule_reconnect for a device that has an entry returns
\* pending_reconnect as it was, whatever the time of the call, so that two
\* calls amount to the first; the callbacks that end in it (connect failure,
\* disconnection, service and characteristic discovery error) leave
\* pending_reconnect unchanged when the device has an entry
ScheduleTwiceIsOnce ==
    [][\A d \in Devices :
          /\ \A t \in TickTimes :
                 /\ d \in DOMAIN pending_reconnect =>
                        ScheduleReconnect(pending_reconnect, d, t)
                            = pending_reconnect
                 /\ ScheduleReconnect(
                        ScheduleReconnect(pending_reconnect, d, now), d, t)
                        = ScheduleReconnect(pending_reconnect, d, now)
          /\ (/\ d \in DOMAIN pending_reconnect
              /\ \/ DidFailToConnectPeripheral(d)
                 \/ DidDisconnectPeripheral(d)
                 \/ DidDiscoverServices(d, TRUE, 0)
                 \/ DidDiscoverCharacteristics(d, TRUE, FALSE)) =>
                 pending_reconnect' = pending_reconnect]_vars

\* the entry made at the start has kept its time through a later connect
\* failure of the device, which scheduled a reconnect once more
EntryTimeKeptAtSecondFailure ==
    /\ now = TimeStep
    /\ "d1" \in DOMAIN pending_reconnect
    /\ pending_reconnect["d1"] = 5
    /\ connect_at["d1"] = now
    /\ "d1" \notin connecting_ids /\ "d1" \notin conn_req
    /\ "d1" \notin connected_ids /\ "d1" \notin link_up
    /\ calls = <<>>

====
